---- MODULE Spec2Model ----
(***************************************************************************)
(* Loan advisor (app.py): monthly_payment, amortization_schedule,          *)
(* eligibility_check and the top-to-bottom run of the Streamlit page.      *)
(*                                                                         *)
(* Python floats are binary floating point with round-to-nearest-even.     *)
(* They are modelled as such, with a significand of Precision bits instead *)
(* of 53: a float is a record [m, e] standing for m * 2^e, m odd or zero.  *)
(* Every operation rounds its exact result once, as IEEE 754 does.  With   *)
(* fewer bits the effects of rounding show at small amounts: what happens  *)
(* here to a principal of 10 happens to a double near 10 * 2^43.           *)
(* Displayed values (round(x, 2)) are integers counting hundredths.        *)
(***************************************************************************)
EXTENDS Integers, Sequences, FiniteSets, TLC

\* ------------------------------------------------------------- bounds
Precision == 10
MaxPrincipal == 12
MaxMonths == 4
MaxIncome == 3

\* ------------------------------------------------- floating point layer
RECURSIVE Pow2(_)
Pow2(k) == IF k <= 0 THEN 1 ELSE 2 * Pow2(k - 1)

RECURSIVE Bits(_)
Bits(n) == IF n <= 0 THEN 0 ELSE 1 + Bits(n \div 2)

Abs(x) == IF x < 0 THEN 0 - x ELSE x

Sign(x) == IF x < 0 THEN 0 - 1 ELSE IF x > 0 THEN 1 ELSE 0

FZero == [m |-> 0, e |-> 0]

\* canonical form: strip trailing zero bits of the significand
RECURSIVE Canon(_, _)
Canon(n, e) ==
    IF n = 0 THEN FZero
    ELSE IF n % 2 = 0 THEN Canon(n \div 2, e + 1)
    ELSE [m |-> n, e |-> e]

\* n * 2^e (n >= 0; sticky: a non-zero remainder lies below n's last bit),
\* rounded to prec significant bits, ties to even
RoundTo(n, e, sticky, prec) ==
    LET b == Bits(n)
        k == b - prec
    IN  IF k <= 0 THEN Canon(n, e)
        ELSE LET q    == n \div Pow2(k)
                 rem  == n % Pow2(k)
                 half == Pow2(k - 1)
                 up   == \/ rem > half
                         \/ rem = half /\ (sticky \/ q % 2 = 1)
             IN  Canon(IF up THEN q + 1 ELSE q, e + k)

FNeg(x) == [m |-> 0 - x.m, e |-> x.e]

\* int -> float
ToF(n) ==
    LET v == RoundTo(Abs(n), 0, FALSE, Precision)
    IN  IF n < 0 THEN FNeg(v) ELSE v

\* x * y at prec bits
FMulP(x, y, prec) ==
    LET v == RoundTo(Abs(x.m) * Abs(y.m), x.e + y.e, FALSE, prec)
    IN  IF Sign(x.m) * Sign(y.m) < 0 THEN FNeg(v) ELSE v

FMul(x, y) == FMulP(x, y, Precision)

\* x / y (y # 0): the quotient is taken with prec + 2 bits and a sticky bit
FDivP(x, y, prec) ==
    IF x.m = 0 THEN FZero
    ELSE LET a == Abs(x.m)
             b == Abs(y.m)
             s == prec + 2 + Bits(b) - Bits(a)
             n == IF s >= 0 THEN a * Pow2(s) ELSE a
             d == IF s >= 0 THEN b ELSE b * Pow2(0 - s)
             v == RoundTo(n \div d, x.e - y.e - s, n % d # 0, prec)
         IN  IF Sign(x.m) * Sign(y.m) < 0 THEN FNeg(v) ELSE v

FDiv(x, y) == FDivP(x, y, Precision)

\* position of the leading bit of |x|
Top(x) == Bits(Abs(x.m)) + x.e

\* x + y
FAdd(x, y) ==
    IF x.m = 0 THEN y
    ELSE IF y.m = 0 THEN x
    ELSE LET hi == IF x.e >= y.e THEN x ELSE y
             lo == IF x.e >= y.e THEN y ELSE x
             d  == hi.e - lo.e
         IN  IF Top(hi) - Top(lo) > Precision + 2 THEN hi
             ELSE IF Top(lo) - Top(hi) > Precision + 2 THEN lo
             ELSE LET s == hi.m * Pow2(d) + lo.m
                      v == RoundTo(Abs(s), lo.e, FALSE, Precision)
                  IN  IF s < 0 THEN FNeg(v) ELSE v

FSub(x, y) == FAdd(x, FNeg(y))

\* x < y
FLt(x, y) ==
    IF Sign(x.m) # Sign(y.m) THEN Sign(x.m) < Sign(y.m)
    ELSE IF x.m = 0 THEN FALSE
    ELSE IF Top(x) # Top(y)
         THEN IF x.m > 0 THEN Top(x) < Top(y) ELSE Top(x) > Top(y)
    ELSE IF x.e >= y.e THEN x.m * Pow2(x.e - y.e) < y.m
    ELSE x.m < y.m * Pow2(y.e - x.e)

\* x <= y
FLe(x, y) == x = y \/ FLt(x, y)

FMax(x, y) == IF FLt(x, y) THEN y ELSE x

\* b ** (-n), b >= 1, n >= 1: the power is formed with four guard bits and
\* the reciprocal is rounded once (the C library's pow is accurate to within
\* one unit in the last place)
RECURSIVE PowExt(_, _)
PowExt(b, n) ==
    IF n = 1 THEN b ELSE FMulP(PowExt(b, n - 1), b, Precision + 4)

FPowNeg(b, n) == FDivP([m |-> 1, e |-> 0], PowExt(b, n), Precision)

\* n / 2^k (n >= 0) rounded to an integer, ties to even
RoundShift(n, k) ==
    IF k <= 0 THEN n * Pow2(0 - k)
    ELSE IF Bits(n) < k THEN 0
    ELSE LET q    == n \div Pow2(k)
             rem  == n % Pow2(k)
             half == Pow2(k - 1)
         IN  IF rem > half \/ (rem = half /\ q % 2 = 1) THEN q + 1 ELSE q

\* round(x, 2), in hundredths
Round2(x) == Sign(x.m) * RoundShift(100 * Abs(x.m), 0 - x.e)

\* round(x), an int
Round0(x) == Sign(x.m) * RoundShift(Abs(x.m), 0 - x.e)

FOne == [m |-> 1, e |-> 0]

\* ------------------------------------------------------ helper functions
Value(v) == [kind |-> "value", v |-> v]

Raise(exc) == [kind |-> "raise", exc |-> exc]

\* r = annual_rate_percent / 100.0 / 12.0
MonthlyRate(annual_rate_percent) ==
    FDiv(FDiv(ToF(annual_rate_percent), ToF(100)), ToF(12))

\* monthly_payment(principal, annual_rate_percent, months, method)
monthly_payment(principal, annual_rate_percent, months, method) ==
    IF months <= 0 THEN Value(FZero)
    ELSE LET r == MonthlyRate(annual_rate_percent)
         IN  IF method = "annuity"
             THEN IF r = FZero
                  THEN Value(FDiv(ToF(principal), ToF(months)))
                  ELSE LET den == FSub(FOne, FPowNeg(FAdd(FOne, r), months))
                       IN  IF den = FZero
                           THEN Raise("ZeroDivisionError")
                           ELSE Value(FDiv(FMul(ToF(principal), r), den))
             ELSE IF method = "flat"
             THEN LET monthly_interest ==
                          FDiv(FMul(ToF(principal),
                                    FDiv(ToF(annual_rate_percent), ToF(100))),
                               ToF(12))
                  IN  Value(FAdd(FDiv(ToF(principal), ToF(months)),
                                 monthly_interest))
             ELSE Raise("ValueError")

\* variant: the schedule follows a flat payment
SchedulePaymentFlat(principal, annual_rate_percent, months) ==
    monthly_payment(principal, annual_rate_percent, months, "flat")

\* the payment amortization_schedule simulates
SchedulePayment(principal, annual_rate_percent, months) ==
    monthly_payment(principal, annual_rate_percent, months, "annuity")

\* principal_paid = payment - interest
PrincipalPaid(payment, interest) == FSub(payment, interest)

\* variant: the balance is rounded without the max(0.0, .) floor
ScheduleRowNoFloor(m, payment, interest, principal_paid, remaining) ==
    [month          |-> m,
     payment        |-> Round2(payment),
     interest       |-> Round2(interest),
     principal_paid |-> Round2(principal_paid),
     remaining      |-> Round2(remaining)]

\* the row appended for month m (remaining: the balance after the payment)
ScheduleRow(m, payment, interest, principal_paid, remaining) ==
    [month          |-> m,
     payment        |-> Round2(payment),
     interest       |-> Round2(interest),
     principal_paid |-> Round2(principal_paid),
     remaining      |-> Round2(FMax(FZero, remaining))]

\* dti_threshold=0.4
DefaultDtiThreshold == FDiv(ToF(4), ToF(10))

\* variant: no income counts as no burden
DtiZeroSentinel(monthly_income, monthly_payment_amount) ==
    IF monthly_income > 0
    THEN FDiv(monthly_payment_amount, ToF(monthly_income))
    ELSE FZero

\* dti = monthly_payment_amount / monthly_income if monthly_income > 0 else 1.0
Dti(monthly_income, monthly_payment_amount) ==
    IF monthly_income > 0
    THEN FDiv(monthly_payment_amount, ToF(monthly_income))
    ELSE FOne

\* variant: exclusive threshold
PassDtiStrict(dti, dti_threshold) == FLt(dti, dti_threshold)

\* pass_dti = dti <= dti_threshold
PassDti(dti, dti_threshold) == FLe(dti, dti_threshold)

\* eligibility_check(monthly_income, monthly_payment_amount, min_income,
\*                   dti_threshold)
eligibility_check(monthly_income, monthly_payment_amount, min_income, dti_threshold) ==
    LET dti == Dti(monthly_income, monthly_payment_amount)
    IN  [monthly_income  |-> monthly_income,
         monthly_payment |-> monthly_payment_amount,
         dti             |-> dti,
         pass_dti        |-> PassDti(dti, dti_threshold),
         pass_min_income |-> monthly_income >= min_income]

NoElig == [monthly_income |-> 0, monthly_payment |-> FZero, dti |-> FZero,
           pass_dti |-> FALSE, pass_min_income |-> FALSE]

\* ------------------------------------------------------------ the page
\* the catalog read by load_products
Products ==
    { [name |-> "A", annual_rate_percent |-> 12, min_amount |-> 2,
       max_amount |-> 8, min_term_months |-> 2, max_term_months |-> 3,
       min_monthly_income |-> 1],
      [name |-> "B", annual_rate_percent |-> 24, min_amount |-> 4,
       max_amount |-> 10, min_term_months |-> 1, max_term_months |-> 4,
       min_monthly_income |-> 2] }

NoProduct == [name |-> "", annual_rate_percent |-> 0, min_amount |-> 0,
              max_amount |-> 0, min_term_months |-> 0, max_term_months |-> 0,
              min_monthly_income |-> 0]

\* errors collected by the validation
Errors(prod, p, t, inc) ==
    (IF p < prod.min_amount \/ p > prod.max_amount
     THEN <<"amount">> ELSE <<>>)
    \o (IF t < prod.min_term_months \/ t > prod.max_term_months
        THEN <<"term">> ELSE <<>>)
    \o (IF inc < 0 THEN <<"income">> ELSE <<>>)

\* the method string handed to monthly_payment
PageMethod(repayment_method) ==
    IF repayment_method[1] = "annuity" THEN "annuity" ELSE "flat"

\* variant: warns only when both criteria fail
ShowWarningBoth(e) == ~(e.pass_dti \/ e.pass_min_income)

\* if not (elig['pass_dti'] and elig['pass_min_income'])
ShowWarning(e) == ~(e.pass_dti /\ e.pass_min_income)

\* ------------------------------------------------------------- inputs
\* annual rates in percent; at Precision bits 1 gives a monthly rate r > 0
\* with 1 + r = 1.0, as 1e-13 does at 53 bits
Rates == {0, 1, 12, 30, 120}

Months == {0 - 1, 0} \cup (1 .. MaxMonths)

Methods == {"annuity", "flat", "linear"}

Thresholds == {DefaultDtiThreshold, FDiv(ToF(1), ToF(2)), FOne}

\* the two options of the selectbox, each as the words of its label
RepaymentMethods ==
    {<<"annuity", "(tra deu)">>, <<"flat", "(tra goc + lai co dinh)">>}

VARIABLES
    entry,            \* what this behaviour executes
    pc,               \* position in it
    principal, annual_rate_percent, months, method,   \* loan arguments
    monthly,          \* result of monthly_payment
    r, payment, remaining, m, schedule, sched_ret,    \* amortization_schedule
    monthly_income, min_income, dti_threshold, amount, \* eligibility inputs
    elig,             \* result of eligibility_check
    product, repayment_method, clicked,               \* page inputs
    errors, error_shown, shown_monthly, warning_shown, df_shown, reply

loan == <<principal, annual_rate_percent, months, method>>
sched == <<r, payment, remaining, m, schedule, sched_ret>>
eligin == <<monthly_income, min_income, dti_threshold>>
pagein == <<product, repayment_method, clicked>>
pageout == <<errors, error_shown, shown_monthly, warning_shown, df_shown, reply>>

vars == <<entry, pc, loan, monthly, sched, eligin, amount, elig, pagein, pageout>>

Blank ==
    /\ monthly = [kind |-> "none"]
    /\ r = FZero /\ payment = FZero /\ remaining = FZero /\ m = 0
    /\ schedule = <<>> /\ sched_ret = "none"
    /\ elig = NoElig
    /\ errors = <<>> /\ error_shown = FALSE /\ shown_monthly = 0
    /\ warning_shown = FALSE /\ df_shown = FALSE /\ reply = "none"

\* a direct call of one of the three helper functions
InitCalls ==
    /\ Blank
    /\ product = NoProduct /\ repayment_method = <<>> /\ clicked = "none"
    /\ \/ /\ entry = "monthly_payment" /\ pc = "call"
          /\ principal \in 0 .. MaxPrincipal
          /\ annual_rate_percent \in Rates
          /\ months \in Months
          /\ method \in Methods
          /\ monthly_income = 0 /\ min_income = 0
          /\ dti_threshold = FZero /\ amount = FZero
       \/ /\ entry = "amortization_schedule" /\ pc = "sched_enter"
          /\ principal \in 0 .. MaxPrincipal
          /\ annual_rate_percent \in Rates
          /\ months \in Months
          /\ method = ""
          /\ monthly_income = 0 /\ min_income = 0
          /\ dti_threshold = FZero /\ amount = FZero
       \/ /\ entry = "eligibility_check" /\ pc = "call"
          /\ principal = 0 /\ annual_rate_percent = 0 /\ months = 0
          /\ method = ""
          /\ monthly_income \in (0 - 1) .. MaxIncome
          /\ min_income \in 0 .. MaxIncome
          /\ dti_threshold \in Thresholds
          /\ amount \in {ToF(a) : a \in 0 .. MaxPrincipal}

\* one run of the script: the widgets' values and the selected product
Init ==
    /\ Blank
    /\ entry = "page" /\ pc = "validate"
    /\ product \in Products
    /\ principal \in 0 .. MaxPrincipal
    /\ months \in 1 .. MaxMonths
    /\ monthly_income \in 0 .. MaxIncome
    /\ repayment_method \in RepaymentMethods
    /\ clicked \in {"none", "schedule", "chat"}
    /\ annual_rate_percent = product.annual_rate_percent
    /\ min_income = product.min_monthly_income
    /\ method = PageMethod(repayment_method)
    /\ dti_threshold = DefaultDtiThreshold
    /\ amount = FZero

\* ---------------------------------------------------- direct calls
CallMonthlyPayment ==
    /\ entry = "monthly_payment" /\ pc = "call"
    /\ monthly' = monthly_payment(principal, annual_rate_percent, months, method)
    /\ pc' = "done"
    /\ UNCHANGED <<entry, loan, sched, eligin, amount, elig, pagein, pageout>>

CallEligibilityCheck ==
    /\ entry = "eligibility_check" /\ pc = "call"
    /\ elig' = eligibility_check(monthly_income, amount, min_income, dti_threshold)
    /\ pc' = "done"
    /\ UNCHANGED <<entry, loan, monthly, sched, eligin, amount, pagein, pageout>>

\* ------------------------------------------- amortization_schedule
\* where control goes when amortization_schedule is left
AfterSchedule(raised) ==
    IF entry = "page" THEN (IF raised THEN "crashed" ELSE "chat") ELSE "done"

\* r, payment, schedule = [], remaining = principal
amortization_schedule_enter ==
    /\ pc = "sched_enter"
    /\ LET pay == SchedulePayment(principal, annual_rate_percent, months)
       IN  IF pay.kind = "raise"
           THEN /\ sched_ret' = "raise"
                /\ pc' = AfterSchedule(TRUE)
                /\ UNCHANGED <<r, payment, remaining, m, schedule>>
           ELSE /\ r' = MonthlyRate(annual_rate_percent)
                /\ payment' = pay.v
                /\ schedule' = <<>>
                /\ remaining' = ToF(principal)
                /\ m' = 0
                /\ pc' = "sched_loop"
                /\ UNCHANGED sched_ret
    /\ UNCHANGED <<entry, loan, monthly, eligin, amount, elig, pagein, pageout>>

\* one iteration of for m in range(1, months + 1)
amortization_schedule_loop ==
    /\ pc = "sched_loop"
    /\ m + 1 <= months
    /\ LET interest       == FMul(remaining, r)
           principal_paid == PrincipalPaid(payment, interest)
           rem            == FSub(remaining, principal_paid)
       IN  /\ remaining' = rem
           /\ schedule' = Append(schedule,
                   ScheduleRow(m + 1, payment, interest, principal_paid, rem))
    /\ m' = m + 1
    /\ UNCHANGED <<entry, pc, loan, monthly, r, payment, sched_ret, eligin,
                   amount, elig, pagein, errors, error_shown, shown_monthly,
                   warning_shown, df_shown, reply>>

\* the range is exhausted: return pd.DataFrame(schedule); the page shows it
amortization_schedule_return ==
    /\ pc = "sched_loop"
    /\ m + 1 > months
    /\ sched_ret' = "frame"
    /\ df_shown' = (entry = "page")
    /\ pc' = AfterSchedule(FALSE)
    /\ UNCHANGED <<entry, loan, monthly, r, payment, remaining, m, schedule,
                   eligin, amount, elig, pagein, errors, error_shown,
                   shown_monthly, warning_shown, reply>>

\* ------------------------------------------------------- page steps
\* validate inputs vs product; st.error when there are errors
Validate ==
    /\ entry = "page" /\ pc = "validate"
    /\ errors' = Errors(product, principal, months, monthly_income)
    /\ error_shown' = (errors' # <<>>)
    /\ pc' = "compute"
    /\ UNCHANGED <<entry, loan, monthly, sched, eligin, amount, elig, pagein,
                   shown_monthly, warning_shown, df_shown, reply>>

\* compute payment and write the simulation results
ComputePayment ==
    /\ entry = "page" /\ pc = "compute"
    /\ monthly' = monthly_payment(principal, annual_rate_percent, months, method)
    /\ IF monthly'.kind = "raise"
       THEN pc' = "crashed" /\ UNCHANGED shown_monthly
       ELSE pc' = "eligibility" /\ shown_monthly' = Round0(monthly'.v)
    /\ UNCHANGED <<entry, loan, sched, eligin, amount, elig, pagein, errors,
                   error_shown, warning_shown, df_shown, reply>>

\* eligibility check (DTI) and its four lines
Eligibility ==
    /\ entry = "page" /\ pc = "eligibility"
    /\ amount' = monthly.v
    /\ elig' = eligibility_check(monthly_income, monthly.v, min_income,
                                dti_threshold)
    /\ pc' = "warning"
    /\ UNCHANGED <<entry, loan, monthly, sched, eligin, pagein, pageout>>

\* st.warning, then the schedule button
Warning ==
    /\ entry = "page" /\ pc = "warning"
    /\ warning_shown' = ShowWarning(elig)
    /\ pc' = IF clicked = "schedule" THEN "sched_enter" ELSE "chat"
    /\ UNCHANGED <<entry, loan, monthly, sched, eligin, amount, elig, pagein,
                   errors, error_shown, shown_monthly, df_shown, reply>>

\* the chat box: the rule-based answer when its button was pressed
Chat ==
    /\ entry = "page" /\ pc = "chat"
    /\ reply' = IF clicked # "chat" THEN "none"
                ELSE IF elig.pass_dti /\ elig.pass_min_income
                THEN "meets" ELSE "fails"
    /\ pc' = "done"
    /\ UNCHANGED <<entry, loan, monthly, sched, eligin, amount, elig, pagein,
                   errors, error_shown, shown_monthly, warning_shown, df_shown>>

Next ==
    \/ Validate
    \/ ComputePayment
    \/ Eligibility
    \/ Warning
    \/ amortization_schedule_enter
    \/ amortization_schedule_loop
    \/ amortization_schedule_return
    \/ Chat

NextCalls ==
    \/ CallMonthlyPayment
    \/ CallEligibilityCheck
    \/ amortization_schedule_enter
    \/ amortization_schedule_loop
    \/ amortization_schedule_return

Spec == Init /\ [][Next]_vars

SpecCalls == InitCalls /\ [][NextCalls]_vars

\* ------------------------------------------------------------ properties
CallDone(fn) == entry = fn /\ pc = "done"

ScheduleReturned == CallDone("amortization_schedule") /\ sched_ret = "frame"

\* payment - interest - principal_paid of a row, in hundredths
RowGap(row) == row.payment - row.interest - row.principal_paid

\* C1: for principal >= 0, rate >= 0 and months N >= 1, amortization_schedule
\* returns exactly N rows with month indices 1, 2, ..., N.
C1_ExactlyNRows ==
    (CallDone("amortization_schedule") /\ principal >= 0
        /\ annual_rate_percent >= 0 /\ months >= 1)
    => /\ sched_ret = "frame"
       /\ Len(schedule) = months
       /\ \A i \in 1 .. Len(schedule) : schedule[i].month = i

\* C2: monthly_payment with a method other than "annuity" and "flat" raises
\* and returns no payment, whatever the principal, rate and term.
C2_UnknownMethodRaises ==
    (CallDone("monthly_payment") /\ method \notin {"annuity", "flat"})
    => monthly.kind = "raise"

\* C3: amortization_schedule with months <= 0 signals an error instead of
\* returning rows.
C3_NonPositiveTermRejected ==
    (CallDone("amortization_schedule") /\ months <= 0)
    => sched_ret = "raise"

\* C4: the last row of a returned schedule shows a remaining balance of 0.
C4_FinalBalanceZero ==
    (ScheduleReturned /\ months >= 1)
    => schedule[Len(schedule)].remaining = 0

C6_SplitWithinOneHundredth ==
    entry = "amortization_schedule"
    => \A i \in 1 .. Len(schedule) :
          /\ Abs(RowGap(schedule[i])) <= 1
          /\ schedule[i].interest >= 0
          /\ schedule[i].principal_paid >= 0

\* q is the float nearest to x / n (n > 0)
NearestQuotient(q, x, n) ==
    LET u  == Top(q) - Precision
        lo == IF q.e < x.e THEN (IF q.e < u THEN q.e ELSE u)
              ELSE (IF x.e < u THEN x.e ELSE u)
    IN  2 * Abs(q.m * Pow2(q.e - lo) * n - x.m * Pow2(x.e - lo))
            <= Pow2(u - lo) * n

\* C7: eligibility_check returns dti = payment / income when income > 0, and
\* dti = 1.0 with pass_dti = (1.0 <= dti_threshold) when income is not > 0.
C7_DtiOrSentinel ==
    CallDone("eligibility_check")
    => /\ monthly_income > 0 =>
             /\ elig.dti.m >= 0
             /\ NearestQuotient(elig.dti, amount, monthly_income)
       /\ monthly_income <= 0 =>
             /\ elig.dti = FOne
             /\ elig.pass_dti = ~FLt(dti_threshold, FOne)

\* a call without income, with a payment due, that passes at threshold 1.0
C7_Witness ==
    /\ CallDone("eligibility_check")
    /\ monthly_income = 0
    /\ amount.m > 0
    /\ elig.dti = FOne
    /\ elig.pass_dti

\* C8: with income > 0, pass_dti is true when the ratio equals the threshold
\* and false exactly when the ratio is strictly greater than the threshold.
C8_ThresholdInclusive ==
    (CallDone("eligibility_check") /\ monthly_income > 0)
    => /\ elig.dti = dti_threshold => elig.pass_dti
       /\ ~elig.pass_dti <=> FLt(dti_threshold, elig.dti)

\* a call whose ratio is exactly the threshold, one half, and passes
C8_Witness ==
    /\ CallDone("eligibility_check")
    /\ monthly_income > 0
    /\ amount.m > 0
    /\ elig.dti = dti_threshold
    /\ elig.pass_dti

\* C9: on the page, whatever repayment method is selected, the loop runs with
\* the annuity payment and every row shows it.
C9_ScheduleUsesAnnuity ==
    LET annuity == monthly_payment(principal, annual_rate_percent, months, "annuity")
    IN  (entry = "page" /\ (pc = "sched_loop" \/ df_shown))
        => /\ annuity.kind = "value"
           /\ payment = annuity.v
           /\ \A i \in 1 .. Len(schedule) :
                 schedule[i].payment = Round2(annuity.v)

\* flat is selected, the schedule is on display, and its rows show a payment
\* other than the monthly payment written above it
C9_Witness ==
    /\ entry = "page" /\ pc = "done" /\ df_shown
    /\ method = "flat"
    /\ Len(schedule) = months
    /\ schedule[1].payment # Round2(monthly.v)
    /\ schedule[1].payment = Round2(payment)

OutOfRange ==
    \/ principal < product.min_amount \/ principal > product.max_amount
    \/ months < product.min_term_months \/ months > product.max_term_months

====
